---- MODULE Spec2Model ----
(***************************************************************************)
(* issue-backup (src/main.go): backupIssues fetches every issue of a       *)
(* repository page by page, writes each issue to standard output and, for  *)
(* an issue that has comments, fetches and writes its comments.            *)
(*                                                                         *)
(* The program is one thread of control; pc is its position.  The remote   *)
(* tracker, the output stream and the rate limit are the environment:      *)
(* every response and every write outcome is a nondeterministic choice.    *)
(*                                                                         *)
(* The environment's faults are bounded so that every run ends: at most    *)
(* MaxRateLimits rate-limit errors and MaxSepFailures failed separator     *)
(* writes in a run, and at most one response whose next-page indicator is  *)
(* not the one the remote's pagination gives; such a response and a failed *)
(* separator write do not occur in the same run.  Any request may end in   *)
(* an error that is no rate-limit error, and any jsonutil.Write may fail.  *)
(*                                                                         *)
(* A rate-limit error names a reset time at most MaxWait ahead and at most *)
(* one time unit past.  The loggers dbg and warn are seen as the number of *)
(* lines each has written to os.Stderr.                                    *)
(*                                                                         *)
(* Spec is one run without -q.  SpecFair adds that the program and the     *)
(* remote keep going.  SpecRepeat runs backupIssues a second time after a  *)
(* run without failure.  SpecQuiet runs the program twice, once with and   *)
(* once without -q, against a remote whose responses to the first requests *)
(* of a run are fixed in advance, so that both runs get the same           *)
(* responses.                                                              *)
(***************************************************************************)
EXTENDS Integers, Sequences, FiniteSets, TLC

\* ------------------------------------------------------------------ bounds
\* Largest number of issues the remote holds.
MaxIssues == 2
\* Largest comment count of an issue.
MaxComments == 2
\* Largest number of records the remote puts in one page.
ServerPageCap == 1
\* Largest number of rate-limit errors the remote answers with in one run.
MaxRateLimits == 2
\* Largest number of separator writes that fail in one run.
MaxSepFailures == 1
\* Longest time from a rate-limit error to the reset time it names.
MaxWait == 1

\* ------------------------------------------------------- program constants
\* ListOptions.PerPage of both fetches.
PerPage == 100

VARIABLES
  \* the remote state, unchanged by the program
  numIssues,     \* number of issues the remote holds
  ccount,        \* ccount[i]: number of comments of issue i
  \* what the environment has done in this run
  rateLimits,    \* rate-limit errors answered
  deviated,      \* whether a response named a next page that is not the
                 \* one the remote's own pagination gives
  sepFailures,   \* separator writes that failed
  backward,      \* whether a response named a next page that is not after
                 \* the page it answers
  truncated,     \* whether a request ended in a non-rate-limit error
  wfail,         \* whether a write to os.Stdout has failed
  \* backupIssues
  pc,            \* position of the program
  issues,        \* backupIssues: result of getIssues
  idx,           \* backupIssues: index of the range loop over issues
  comments,      \* backupIssues: result of getIssueComments
  ret,           \* backupIssues: "none" while running, then "nil" or "error"
  \* getIssues / getIssueComments (one frame at a time is live)
  kind,          \* "issues" or "comments": which function is running
  issueNumber,   \* getIssueComments: its issueNumber argument (0 in getIssues)
  opt,           \* opt.ListOptions: [PerPage, Page]
  page,          \* the page counter of the function
  all,           \* allIssues / allComments
  items,         \* issues / comments of the last call
  resp,          \* resp of the last call: [NextPage]
  err,           \* err of the last call: "nil", "ratelimit" or "other"
  rerr,          \* the error value the function returned
  \* observation
  inflight,      \* number of remote requests sent and not yet answered
  out,           \* what was written to os.Stdout, in order
  sels,          \* the fetch: page selectors of its first calls, in order
  lastSel,       \* the fetch: page selector of its latest call
  contrib,       \* the fetch: pages whose records were appended, in order
  warns,         \* the fetch: page numbers named in its warnings, in order
  retried,       \* the fetch: whether a rate-limit error was waited out
  reqd,          \* numbers of the issues whose comments were requested
  run,           \* number of the current run of backupIssues
  prevOut,       \* out of the previous run
  \* the rate limit
  untilReset,    \* err of the last call, when it is a rate-limit error: the
                 \* time from now to its e.Rate.Reset.Time (0 for other err)
  slept,         \* time the program has been suspended since its last call
  \* the diagnostic stream
  quiet,         \* main: the -q flag
  diag,          \* lines the loggers dbg and warn have written to os.Stderr
                 \* in this run: [dbg, warn]
  prevDiag,      \* diag of the previous run
  \* runs against a remote whose responses are fixed in advance
  fixed,         \* whether the responses are fixed in advance
  plan,          \* the responses to the first requests of a run, in order
                 \* (every later request is answered with the page asked for)
  script,        \* what is left of plan in this run
  reqs,          \* the requests of this run, in order (kept when fixed)
  prevReqs       \* reqs of the previous run

envVars ==
  <<numIssues, ccount, rateLimits, deviated, backward, sepFailures, truncated, wfail>>
mainVars == <<issues, idx, comments, ret>>
frameVars == <<kind, issueNumber, opt, page, all, items, resp, err, rerr>>
fetchObs == <<sels, lastSel, contrib, warns, retried>>
waitVars == <<untilReset, slept>>
flagVars == <<quiet, fixed, plan, prevReqs, prevDiag>>
quietVars == <<flagVars, diag, script, reqs>>
obsVars == <<inflight, out, fetchObs, reqd, run, prevOut, waitVars, quietVars>>
vars == <<envVars, pc, mainVars, frameVars, obsVars>>

\* ------------------------------------------------------------ Go slices
\* A Go slice: nil or not, and its elements.
NilSlice == [nil |-> TRUE, elems |-> <<>>]

\* A slice decoded from a JSON array: never nil.
MkSlice(s) == [nil |-> FALSE, elems |-> s]

\* append with its arguments the wrong way round.
GoAppendFront(a, b) ==
  IF Len(b.elems) = 0 THEN a ELSE [nil |-> FALSE, elems |-> b.elems \o a.elems]

\* append(a, b...): appending nothing returns a itself, so nil stays nil.
GoAppend(a, b) ==
  IF Len(b.elems) = 0 THEN a ELSE [nil |-> FALSE, elems |-> a.elems \o b.elems]

\* ------------------------------------------------------------ the remote
Min(a, b) == IF a < b THEN a ELSE b

\* The issue with number i, as the remote holds it.
IssueRec(i) == [number |-> i, comments |-> ccount[i]]

\* The j-th comment of issue n.
CommentRec(n, j) == [issue |-> n, id |-> j]

\* The whole collection a fetch walks, in the remote's order.
RemoteRecords(k, n) ==
  IF k = "issues"
    THEN [i \in 1..numIssues |-> IssueRec(i)]
    ELSE [j \in 1..ccount[n] |-> CommentRec(n, j)]

\* The page a selector names: a request without a page asks for the first.
PageOf(sel) == IF sel = 0 THEN 1 ELSE sel

\* Number of records per page the remote serves for a requested page size.
PageSize(perPage) == Min(perPage, ServerPageCap)

\* The records of page p of a collection (none beyond the last page).
PageItems(recs, p, size) ==
  [j \in 1..(Min(p * size, Len(recs)) - Min((p - 1) * size, Len(recs))) |->
     recs[(p - 1) * size + j]]

\* The next-page indicator of page p: 0 on the last page.
PageNext(recs, p, size) == IF p * size < Len(recs) THEN p + 1 ELSE 0

\* Number of pages of a collection (an empty collection has one empty page).
NumPages(recs, size) ==
  IF Len(recs) = 0 THEN 1 ELSE (Len(recs) + size - 1) \div size

\* ------------------------------------------------------------ observation
\* What is observed of a fetch when it starts and after it has been handed to
\* backupIssues.
NoFetchObs ==
  /\ sels' = <<>> /\ lastSel' = 0 /\ contrib' = <<>> /\ warns' = <<>>
  /\ retried' = FALSE

\* ------------------------------------------------------------ Init
\* No line written to os.Stderr.
NoDiag == [dbg |-> 0, warn |-> 0]

\* backupIssues is entered; nothing has been fetched or written.
InitProgram ==
  /\ numIssues \in 0..MaxIssues
  /\ ccount \in [1..numIssues -> 0..MaxComments]
  /\ rateLimits = 0 /\ deviated = FALSE /\ sepFailures = 0
  /\ backward = FALSE /\ truncated = FALSE /\ wfail = FALSE
  /\ pc = "main"
  /\ issues = NilSlice /\ idx = 0 /\ comments = NilSlice /\ ret = "none"
  /\ kind = "issues" /\ issueNumber = 0
  /\ opt = [PerPage |-> PerPage, Page |-> 0]
  /\ page = 1 /\ all = NilSlice /\ items = NilSlice
  /\ resp = [NextPage |-> 0] /\ err = "nil" /\ rerr = "nil"
  /\ inflight = 0 /\ out = <<>> /\ reqd = {}
  /\ sels = <<>> /\ lastSel = 0 /\ contrib = <<>> /\ warns = <<>> /\ retried = FALSE
  /\ run = 1 /\ prevOut = <<>>
  /\ untilReset = 0 /\ slept = 0
  /\ diag = NoDiag /\ prevDiag = NoDiag
  /\ reqs = <<>> /\ prevReqs = <<>>

\* The program is run without -q; the remote and os.Stdout answer as they
\* will.
Init ==
  /\ InitProgram
  /\ quiet = FALSE
  /\ fixed = FALSE /\ plan = <<>> /\ script = <<>>

\* ------------------------------------------------- getIssues, getIssueComments
\* An entry that leaves the accumulator as the previous fetch left it.
EnterFetchKeep(k, n) ==
  /\ kind' = k
  /\ issueNumber' = n
  /\ opt' = [PerPage |-> PerPage, Page |-> 0]
  /\ all' = all
  /\ page' = 1
  /\ NoFetchObs
  /\ UNCHANGED <<items, resp, err, rerr>>

\* Entry of getIssues (k = "issues") or getIssueComments (k = "comments", for
\* issue n): opt with PerPage 100 and no page, an empty accumulator, page 1.
EnterFetch(k, n) ==
  /\ kind' = k
  /\ issueNumber' = n
  /\ opt' = [PerPage |-> PerPage, Page |-> 0]
  /\ all' = NilSlice
  /\ page' = 1
  /\ NoFetchObs
  /\ UNCHANGED <<items, resp, err, rerr>>

\* c.client.Issues.ListByRepo / ListComments is called with opt: the first
\* call of an iteration (pc = "list") or the call of the retry loop
\* (pc = "relist").
ListCall ==
  /\ pc \in {"list", "relist"}
  /\ pc' = IF pc = "list" THEN "listW" ELSE "relistW"
  /\ inflight' = inflight + 1
  /\ sels' = IF pc = "list" THEN Append(sels, opt.Page) ELSE sels
  /\ lastSel' = opt.Page
  /\ UNCHANGED <<contrib, warns, retried>>
  /\ reqd' = IF kind = "comments" THEN reqd \cup {issueNumber} ELSE reqd
  /\ slept' = 0
  /\ reqs' = IF fixed THEN Append(reqs, <<kind, issueNumber, opt.Page>>) ELSE reqs
  /\ UNCHANGED <<envVars, mainVars, frameVars, out, run, prevOut, flagVars, diag, script,
                 untilReset>>

\* The time from now to the reset time a rate-limit error names: the reset
\* time may be in the future, now, or already past.
ResetChoices == (0 - 1)..MaxWait

\* The next-page indicators the remote may put in a successful response:
\* the one its pagination gives or, once in a run in which every separator
\* was written and the responses are not fixed in advance, any other.
NextChoices(recs, p, size) ==
  {PageNext(recs, p, size)}
    \cup (IF ~deviated /\ sepFailures = 0 /\ ~fixed
           THEN 0..(NumPages(recs, size) + 1) ELSE {})

\* The responses that can be fixed in advance: the page asked for, a
\* rate-limit error with its reset time, or another error.
Responses ==
  {[kind |-> "ok", reset |-> 0], [kind |-> "other", reset |-> 0]}
    \cup {[kind |-> "ratelimit", reset |-> d] : d \in ResetChoices}

\* The plans: a response for each of the first requests of a run, as many
\* as the remote may answer with rate-limit errors.
Plans == [1..MaxRateLimits -> Responses]

\* Whether the remote may give the response now: any when the responses are
\* not fixed; else the next of the script and, after its end, the page.
Scripted(k, d) ==
  fixed => (IF script = <<>> THEN k = "ok" ELSE Head(script) = [kind |-> k, reset |-> d])

\* The remote answers the request in flight: a page with its next-page
\* indicator, a rate-limit error, or another error.
Respond ==
  /\ pc \in {"listW", "relistW"}
  /\ pc' = IF pc = "listW" THEN "chk" ELSE "wait"
  /\ inflight' = inflight - 1
  /\ script' = IF script = <<>> THEN script ELSE Tail(script)
  /\ LET recs == RemoteRecords(kind, issueNumber)
         p == PageOf(opt.Page)
         size == PageSize(opt.PerPage)
     IN \/ \E nx \in NextChoices(recs, p, size) :
             /\ Scripted("ok", 0)
             /\ items' = MkSlice(PageItems(recs, p, size))
             /\ resp' = [NextPage |-> nx]
             /\ err' = "nil"
             /\ untilReset' = 0
             /\ deviated' = (deviated \/ nx # PageNext(recs, p, size))
             /\ backward' = (backward \/ (nx # 0 /\ nx <= p))
             /\ UNCHANGED <<rateLimits, truncated>>
        \/ /\ rateLimits < MaxRateLimits
           /\ items' = NilSlice
           /\ resp' = [NextPage |-> 0]
           /\ err' = "ratelimit"
           /\ untilReset' \in ResetChoices
           /\ Scripted("ratelimit", untilReset')
           /\ rateLimits' = rateLimits + 1
           /\ UNCHANGED <<deviated, backward, truncated>>
        \/ /\ Scripted("other", 0)
           /\ items' = NilSlice
           /\ resp' = [NextPage |-> 0]
           /\ err' = "other"
           /\ untilReset' = 0
           /\ truncated' = TRUE
           /\ UNCHANGED <<rateLimits, deviated, backward>>
  /\ UNCHANGED <<numIssues, ccount, sepFailures, wfail, mainVars,
                 kind, issueNumber, opt, page, all, rerr,
                 out, fetchObs, reqd, run, prevOut, flagVars, diag, reqs, slept>>

\* dbg.Printf(...): one more line of dbg on os.Stderr, unless main has set the
\* output of dbg to ioutil.Discard because of -q.
DbgPrintf(d) == IF quiet THEN d ELSE [d EXCEPT !.dbg = @ + 1]

\* warn.Printf(...): one more line of warn on os.Stderr.
WarnPrintf(d) == [d EXCEPT !.warn = @ + 1]

\* if err != nil { ... } after the first call of an iteration.
CheckErr ==
  /\ pc = "chk"
  /\ pc' = IF err # "nil" THEN "wait" ELSE "app"
  /\ UNCHANGED <<envVars, mainVars, frameVars, obsVars>>

\* err.(*github.RateLimitError): whether the error is a rate-limit error.
IsRateLimitError(e) == e = "ratelimit"

\* A waitForRateLimitReset that takes no error for a rate-limit error.
waitForRateLimitResetNever(e) == FALSE

\* A waitForRateLimitReset that takes whatever it is given, no error
\* included, for a rate-limit error.
waitForRateLimitResetAlways(e) == TRUE

\* waitForRateLimitReset(err): its boolean result.
waitForRateLimitReset(e) == IsRateLimitError(e)

\* A time.Sleep that takes a negative duration for its length.
SleepAbs(d) == IF d < 0 THEN 0 - d ELSE d

\* time.Sleep(d): how long the caller is suspended.  A negative or zero
\* duration returns at once.
Sleep(d) == IF d > 0 THEN d ELSE 0

\* A retry loop that counts the page it is about to ask for again.
RetryLoopCount ==
  /\ pc = "wait"
  /\ IF waitForRateLimitReset(err)
       THEN /\ slept' = slept + Sleep(untilReset)
            /\ pc' = "relist"
            /\ retried' = TRUE
            /\ page' = page + 1
            /\ diag' = DbgPrintf(diag)
       ELSE /\ slept' = slept
            /\ pc' = "post"
            /\ retried' = retried
            /\ page' = page
            /\ diag' = diag
  /\ UNCHANGED <<envVars, mainVars, kind, issueNumber, opt, all, items, resp, err, rerr,
                 inflight, out, sels, lastSel, contrib, warns, reqd, run, prevOut,
                 flagVars, script, reqs, untilReset>>

\* for waitForRateLimitReset(err) { ... }: the loop condition.  For a
\* rate-limit error waitForRateLimitReset announces the sleep on dbg, sleeps
\* for delta := time.Until(e.Rate.Reset.Time) and returns true, and the call
\* is repeated; anything else returns false at once and leaves the loop.
RetryLoop ==
  /\ pc = "wait"
  /\ IF waitForRateLimitReset(err)
       THEN /\ diag' = DbgPrintf(diag)
            /\ slept' = slept + Sleep(untilReset)
            /\ pc' = "relist"
            /\ retried' = TRUE
       ELSE /\ diag' = diag
            /\ slept' = slept
            /\ pc' = "post"
            /\ retried' = retried
  /\ UNCHANGED <<envVars, mainVars, frameVars, inflight, out, sels, lastSel, contrib,
                 warns, reqd, run, prevOut, flagVars, script, reqs, untilReset>>

\* The break without the warning.
WarnBreakSilent ==
  /\ pc = "post"
  /\ pc' = IF err # "nil" THEN "ret" ELSE "app"
  /\ UNCHANGED <<envVars, mainVars, frameVars, obsVars>>

\* A warning that names the page selector of the request, not the counter.
WarnBreakSelector ==
  /\ pc = "post"
  /\ IF err # "nil"
       THEN /\ pc' = "ret"
            /\ warns' = Append(warns, opt.Page)
            /\ diag' = WarnPrintf(diag)
       ELSE /\ pc' = "app"
            /\ warns' = warns
            /\ diag' = diag
  /\ UNCHANGED <<envVars, mainVars, frameVars, inflight, out, sels, lastSel, contrib,
                 retried, reqd, run, prevOut, flagVars, script, reqs, waitVars>>

\* if err != nil { warn.Printf(...); break } after the retry loop.
WarnBreak ==
  /\ pc = "post"
  /\ IF err # "nil"
       THEN /\ pc' = "ret"
            /\ warns' = Append(warns, page)
            /\ diag' = WarnPrintf(diag)
       ELSE /\ pc' = "app"
            /\ warns' = warns
            /\ diag' = diag
  /\ UNCHANGED <<envVars, mainVars, frameVars, inflight, out, sels, lastSel, contrib,
                 retried, reqd, run, prevOut, flagVars, script, reqs, waitVars>>

\* An advance that counts the page and leaves opt.Page as it is.
AppendAdvanceStay ==
  /\ pc = "app"
  /\ all' = GoAppend(all, items)
  /\ contrib' = Append(contrib, PageOf(opt.Page))
  /\ opt' = opt
  /\ IF resp.NextPage = 0
       THEN pc' = "ret" /\ page' = page
       ELSE pc' = "list" /\ page' = page + 1
  /\ UNCHANGED <<envVars, mainVars, kind, issueNumber, items, resp, err, rerr,
                 inflight, out, sels, lastSel, warns, retried, reqd, run, prevOut,
                 quietVars, waitVars>>

\* allIssues = append(allIssues, issues...); then stop on NextPage == 0 or
\* advance opt.Page to resp.NextPage and count the page.
AppendAdvance ==
  /\ pc = "app"
  /\ all' = GoAppend(all, items)
  /\ contrib' = Append(contrib, PageOf(opt.Page))
  /\ IF resp.NextPage = 0
       THEN /\ pc' = "ret"
            /\ UNCHANGED <<opt, page>>
       ELSE /\ pc' = "list"
            /\ opt' = [opt EXCEPT !.Page = resp.NextPage]
            /\ page' = page + 1
  /\ UNCHANGED <<envVars, mainVars, kind, issueNumber, items, resp, err, rerr,
                 inflight, out, sels, lastSel, warns, retried, reqd, run, prevOut,
                 quietVars, waitVars>>

\* A return that hands the error of the last call to the caller.
ReturnErr ==
  /\ pc = "ret"
  /\ rerr' = err
  /\ pc' = IF kind = "issues" THEN "gotIssues" ELSE "gotComments"
  /\ UNCHANGED <<envVars, mainVars, kind, issueNumber, opt, page, all, items, resp, err,
                 obsVars>>

\* return allIssues, nil / return allComments, nil.
Return ==
  /\ pc = "ret"
  /\ rerr' = "nil"
  /\ pc' = IF kind = "issues" THEN "gotIssues" ELSE "gotComments"
  /\ UNCHANGED <<envVars, mainVars, kind, issueNumber, opt, page, all, items, resp, err,
                 obsVars>>

\* ------------------------------------------------------------ backupIssues
\* A range loop that walks the issues from the last to the first.
CurIssueBackwards == issues.elems[Len(issues.elems) + 1 - idx]

\* The issue the range loop is at.
CurIssue == issues.elems[idx]

\* What jsonutil.Write puts on the stream for an issue: one JSON object.
IssueValue(issue) ==
  [what |-> "issue", issue |-> issue.number, form |-> "object", items |-> <<issue>>]

\* What jsonutil.Write puts on the stream for a slice of comments: encoding/json
\* writes a nil slice as null and any other slice as an array.
CommentsValue(n, slice) ==
  [what |-> "comments", issue |-> n,
   form |-> IF slice.nil THEN "null" ELSE "array", items |-> slice.elems]

\* What fmt.Println() puts on the stream: the blank separator line.
Separator(n) == [what |-> "sep", issue |-> n, form |-> "newline", items |-> <<>>]

\* c := newClient(token); issues, err := c.getIssues(ownerName, repoName):
\* the call enters getIssues.
CallGetIssues ==
  /\ pc = "main"
  /\ pc' = "list"
  /\ EnterFetch("issues", 0)
  /\ UNCHANGED <<envVars, mainVars, inflight, out, reqd, run, prevOut,
                 quietVars, waitVars>>

\* getIssues has returned: if err != nil { return err }, else the range loop
\* starts at the first issue.
GotIssues ==
  /\ pc = "gotIssues"
  /\ issues' = all
  /\ IF rerr # "nil"
       THEN /\ pc' = "done" /\ ret' = "error" /\ idx' = idx
       ELSE /\ pc' = "range" /\ ret' = ret /\ idx' = 1
  /\ NoFetchObs
  /\ UNCHANGED <<envVars, comments, frameVars, inflight, out, reqd, run, prevOut,
                 quietVars, waitVars>>

\* A range loop that goes for the comments before the issue is written.
RangeCommentsFirst ==
  /\ pc = "range"
  /\ IF idx <= Len(issues.elems)
       THEN /\ pc' = "cond" /\ ret' = ret
       ELSE /\ pc' = "done" /\ ret' = "nil"
  /\ UNCHANGED <<envVars, issues, idx, comments, frameVars, obsVars>>

\* for _, issue := range issues: the next issue, or return nil after the last.
Range ==
  /\ pc = "range"
  /\ IF idx <= Len(issues.elems)
       THEN /\ pc' = "wIssue" /\ ret' = ret
       ELSE /\ pc' = "done" /\ ret' = "nil"
  /\ UNCHANGED <<envVars, issues, idx, comments, frameVars, obsVars>>

\* jsonutil.Write(os.Stdout, v) and the if err != nil { return err } after
\* it: a failed write ends backupIssues with the error.  (No write fails in
\* a run whose responses are fixed in advance.)
Write(v, next) ==
  \E ok \in (IF fixed THEN {TRUE} ELSE BOOLEAN) :
    IF ok
      THEN /\ out' = Append(out, v)
           /\ pc' = next /\ ret' = ret /\ wfail' = wfail
      ELSE /\ out' = out
           /\ pc' = "done" /\ ret' = "error" /\ wfail' = TRUE

\* fmt.Println(): its result is not looked at, so the program goes on whether
\* or not the separator was written.  (The write may fail while the budget
\* of the run lasts.)
Println(next) ==
  /\ pc' = next
  /\ \/ /\ out' = Append(out, Separator(CurIssue.number))
        /\ UNCHANGED <<sepFailures, wfail>>
     \/ /\ sepFailures < MaxSepFailures /\ ~deviated /\ ~fixed
        /\ out' = out
        /\ sepFailures' = sepFailures + 1
        /\ wfail' = TRUE

\* A backupIssues for which -q silences the issue values too.
WriteIssueMuted ==
  /\ pc = "wIssue"
  /\ diag' = DbgPrintf(diag)
  /\ IF quiet
       THEN pc' = "pIssue" /\ UNCHANGED <<out, ret, wfail>>
       ELSE Write(IssueValue(CurIssue), "pIssue")
  /\ UNCHANGED <<numIssues, ccount, rateLimits, deviated, backward, sepFailures, truncated,
                 issues, idx, comments, frameVars, inflight, fetchObs, reqd, run, prevOut,
                 flagVars, script, reqs, waitVars>>

\* dbg.Printf("issue #%d"); jsonutil.Write(os.Stdout, issue).
WriteIssue ==
  /\ pc = "wIssue"
  /\ diag' = DbgPrintf(diag)
  /\ Write(IssueValue(CurIssue), "pIssue")
  /\ UNCHANGED <<numIssues, ccount, rateLimits, deviated, backward, sepFailures, truncated,
                 issues, idx, comments, frameVars, inflight, fetchObs, reqd, run, prevOut,
                 flagVars, script, reqs, waitVars>>

\* The fmt.Println() after the issue.
PrintlnIssue ==
  /\ pc = "pIssue"
  /\ Println("cond")
  /\ UNCHANGED <<numIssues, ccount, rateLimits, deviated, backward, truncated, mainVars,
                 frameVars, inflight, fetchObs, reqd, run, prevOut,
                 quietVars, waitVars>>

\* A backupIssues that fetches the comments of every issue.
CallGetIssueCommentsAlways ==
  /\ pc = "cond"
  /\ pc' = "list"
  /\ EnterFetch("comments", CurIssue.number)
  /\ diag' = DbgPrintf(diag)
  /\ UNCHANGED <<envVars, mainVars, inflight, out, reqd, run, prevOut, flagVars, script, reqs,
                 waitVars>>

\* if issue.GetComments() > 0 { dbg.Printf("%d comments of issue #%d");
\* comments, err := c.getIssueComments(...) }: the call enters
\* getIssueComments; an issue without comments ends the iteration.
CallGetIssueComments ==
  /\ pc = "cond"
  /\ IF CurIssue.comments > 0
       THEN /\ diag' = DbgPrintf(diag)
            /\ pc' = "list"
            /\ EnterFetch("comments", CurIssue.number)
            /\ idx' = idx
       ELSE /\ diag' = diag
            /\ pc' = "range"
            /\ idx' = idx + 1
            /\ UNCHANGED <<frameVars, fetchObs>>
  /\ UNCHANGED <<envVars, issues, comments, ret, inflight, out, reqd, run, prevOut,
                 flagVars, script, reqs, waitVars>>

\* getIssueComments has returned: if err != nil { return err }.
GotComments ==
  /\ pc = "gotComments"
  /\ comments' = all
  /\ IF rerr # "nil"
       THEN /\ pc' = "done" /\ ret' = "error"
       ELSE /\ pc' = "wComments" /\ ret' = ret
  /\ NoFetchObs
  /\ UNCHANGED <<envVars, issues, idx, frameVars, inflight, out, reqd, run, prevOut,
                 quietVars, waitVars>>

\* jsonutil.Write(os.Stdout, comments).
WriteComments ==
  /\ pc = "wComments"
  /\ Write(CommentsValue(CurIssue.number, comments), "pComments")
  /\ UNCHANGED <<numIssues, ccount, rateLimits, deviated, backward, sepFailures, truncated,
                 issues, idx, comments, frameVars, inflight, fetchObs, reqd, run, prevOut,
                 quietVars, waitVars>>

\* The fmt.Println() after the comments; the iteration ends.
PrintlnComments ==
  /\ pc = "pComments"
  /\ Println("range")
  /\ idx' = idx + 1
  /\ UNCHANGED <<numIssues, ccount, rateLimits, deviated, backward, truncated, issues, comments,
                 ret, frameVars, inflight, fetchObs, reqd, run, prevOut,
                 quietVars, waitVars>>

\* ------------------------------------------------------------ specification
Next ==
  \/ CallGetIssues
  \/ ListCall
  \/ Respond
  \/ CheckErr
  \/ RetryLoop
  \/ WarnBreak
  \/ AppendAdvance
  \/ Return
  \/ GotIssues
  \/ Range
  \/ WriteIssue
  \/ PrintlnIssue
  \/ CallGetIssueComments
  \/ GotComments
  \/ WriteComments
  \/ PrintlnComments

Spec == Init /\ [][Next]_vars

\* The program is one goroutine that runs whenever it can, and the remote
\* answers every request put to it: no step that is possible is put off for
\* ever.
SpecFair == Spec /\ WF_vars(Next)

\* A run in which the remote answered every request with the page asked for
\* and every write succeeded.
Clean ==
  /\ rateLimits = 0 /\ ~deviated /\ ~truncated
  /\ sepFailures = 0 /\ ~wfail

\* backupIssues is run a second time against the same remote state, with a
\* fresh output stream, after a first run that met no failure.
Restart ==
  /\ pc = "done" /\ run = 1 /\ ret = "nil" /\ Clean
  /\ pc' = "main"
  /\ run' = 2
  /\ prevOut' = out
  /\ out' = <<>>
  /\ reqd' = {}
  /\ ret' = "none"
  /\ diag' = NoDiag
  /\ prevDiag' = diag
  /\ UNCHANGED <<envVars, issues, idx, comments, frameVars, inflight, fetchObs, waitVars,
                 quiet, fixed, plan, script, reqs, prevReqs>>

NextRepeat == Next \/ Restart

SpecRepeat == Init /\ [][NextRepeat]_vars

\* The program is run with or without -q against a remote whose responses
\* to the first requests of a run are fixed in advance.
InitQuiet ==
  /\ InitProgram
  /\ quiet \in BOOLEAN
  /\ fixed = TRUE /\ plan \in Plans /\ script = plan

\* The program is run a second time with -q the other way round, against
\* the same remote giving the same responses, with a fresh output stream and
\* a fresh diagnostic stream.
RestartQuiet ==
  /\ pc = "done" /\ run = 1 /\ fixed
  /\ pc' = "main"
  /\ run' = 2
  /\ ret' = "none"
  /\ quiet' = ~quiet
  /\ script' = plan
  /\ rateLimits' = 0
  /\ truncated' = FALSE
  /\ prevOut' = out /\ prevReqs' = reqs /\ prevDiag' = diag
  /\ out' = <<>> /\ reqs' = <<>> /\ diag' = NoDiag
  /\ reqd' = {}
  /\ UNCHANGED <<numIssues, ccount, deviated, backward, sepFailures, wfail,
                 issues, idx, comments, frameVars, inflight, fetchObs, waitVars,
                 fixed, plan>>

NextQuiet == Next \/ RestartQuiet

SpecQuiet == InitQuiet /\ [][NextQuiet]_vars

\* ------------------------------------------------------------ properties
\* A fetch has returned and backupIssues has not yet taken its result.
FetchReturned == pc \in {"gotIssues", "gotComments"}

\* The program is inside getIssues or getIssueComments.
InFetch ==
  pc \in {"list", "listW", "chk", "wait", "relist", "relistW", "post", "app", "ret"}

\* The collection of the fetch that is running, and the remote's page size.
Recs == RemoteRecords(kind, issueNumber)
Size == PageSize(PerPage)

\* The first n elements of a sequence.
Prefix(s, n) == [i \in 1..Min(n, Len(s)) |-> s[i]]

IsPrefix(a, b) == Len(a) <= Len(b) /\ a = Prefix(b, Len(a))

\* The selectors of a walk over pages 1..n: none for the first, then 2, 3, ...
Selectors(n) == [i \in 1..n |-> IF i = 1 THEN 0 ELSE i]

\* Pages 1..n in order.
Pages(n) == [i \in 1..n |-> i]

\* C1 (pagination completeness): when every request of a fetch succeeds and
\* each response names the next page of the remote's pagination, the fetch
\* asks for the first page, then for each page a response names, stops at
\* the response that names none, and returns every record of the remote in
\* the remote's order, with no error.
C1_PaginationComplete ==
  (FetchReturned /\ ~deviated /\ ~retried /\ warns = <<>>) =>
    /\ all.elems = Recs
    /\ rerr = "nil"
    /\ sels = Selectors(NumPages(Recs, Size))
    /\ contrib = Pages(NumPages(Recs, Size))
    /\ resp.NextPage = 0

\* A fetch of two pages of issues returned all of them.
C1_Witness ==
  /\ pc = "gotIssues" /\ ~deviated /\ ~retried /\ warns = <<>>
  /\ Len(sels) = 2 /\ Len(all.elems) = MaxIssues

\* C2 (partial-failure truncation): when pages 1..k succeed and the request
\* for page k+1 ends in an error that is no rate-limit error, at once or
\* after rate-limit retries, the fetch returns the records of pages 1..k in
\* order, returns no error and has warned exactly once.
C2_PartialFailure ==
  (FetchReturned /\ ~deviated /\ err = "other") =>
    LET k == Len(contrib) IN
      /\ contrib = Pages(k)
      /\ sels = Selectors(k + 1)
      /\ all.elems = Prefix(Recs, k * Size)
      /\ rerr = "nil"
      /\ Len(warns) = 1

\* The second page of a fetch failed on the retry after a rate-limit error.
C2_Witness ==
  /\ FetchReturned /\ ~deviated /\ err = "other" /\ retried
  /\ Len(contrib) = 1 /\ Len(all.elems) = Size /\ lastSel = 2

\* C3 (rate-limit retry transparency): while the latest error is a rate-limit
\* error the fetch is on its way through the backoff to a new request, that
\* request names the selector of the request that was rate-limited, and a
\* fetch whose only errors were rate-limit errors returns what it returns
\* without them: every record, in order, from the same walk over the pages.
C3_RetryTransparent ==
  /\ err = "ratelimit" => pc \in {"chk", "wait", "relist", "relistW"}
  /\ pc = "relist" => (retried /\ err = "ratelimit" /\ opt.Page = lastSel)
  /\ (FetchReturned /\ ~deviated /\ warns = <<>>) =>
       /\ all.elems = Recs
       /\ rerr = "nil"
       /\ sels = Selectors(NumPages(Recs, Size))
       /\ contrib = Pages(NumPages(Recs, Size))

\* A fetch of two pages returned after two rate-limit errors.
C3_Witness ==
  /\ FetchReturned /\ ~deviated /\ warns = <<>> /\ retried
  /\ rateLimits = MaxRateLimits /\ Len(sels) = 2 /\ Len(all.elems) = 2


\* The values on the output stream, without the separators.
ValueTokens(o) == SelectSeq(o, LAMBDA t : t.what # "sep")

\* The issues on the output stream, in order.
EmittedIssues(o) ==
  LET s == SelectSeq(o, LAMBDA t : t.what = "issue")
  IN [i \in 1..Len(s) |-> s[i].items[1]]

\* C4 (emission failure is fatal): once a write of an issue, of a comment
\* array or of a separator has failed, backupIssues has returned that error.
C4_EmissionFailureFatal == wfail => (pc = "done" /\ ret = "error")

\* C5 (fetch failures never abort the backup): backupIssues returns an error
\* only after a failed write; when it ends without one it returns nil, has
\* written every issue getIssues returned and has asked for and written the
\* comments of every one of them that has comments.
C5_FetchFailuresNeverAbort ==
  /\ ret = "error" => wfail
  /\ FetchReturned => rerr = "nil"
  /\ (pc = "done" /\ ~wfail) =>
       /\ ret = "nil"
       /\ EmittedIssues(out) = issues.elems
       /\ \A i \in 1..Len(issues.elems) :
            issues.elems[i].comments > 0 =>
              /\ issues.elems[i].number \in reqd
              /\ \E j \in 1..Len(out) :
                   out[j].what = "comments" /\ out[j].issue = issues.elems[i].number

\* The comment fetch of the first of two issues failed on its first page, and
\* the second issue and its comments were written all the same.
C5_Witness ==
  /\ pc = "done" /\ ~wfail /\ truncated /\ ~deviated
  /\ Len(issues.elems) = 2 /\ reqd = {1, 2} /\ Len(out) = 8
  /\ out[3].what = "comments" /\ out[3].items = <<>>
  /\ out[7].what = "comments" /\ Len(out[7].items) = 2

\* C6 (zero-comment skip): for an issue written with comment count 0 no
\* comment-list request is made and no comments are written; the value after
\* it on the stream, if any, is the next issue.
C6_ZeroCommentSkip ==
  /\ (InFetch /\ kind = "comments") => CurIssue.comments > 0
  /\ LET v == ValueTokens(out) IN
       \A i \in 1..Len(v) :
         (v[i].what = "issue" /\ v[i].items[1].comments = 0) =>
           /\ v[i].issue \notin reqd
           /\ \A j \in 1..Len(v) : v[j].what = "comments" => v[j].issue # v[i].issue
           /\ i < Len(v) => v[i + 1].what = "issue"

\* An issue without comments was written, then an issue with comments.
C6_Witness ==
  /\ pc = "done" /\ ret = "nil" /\ Len(out) = 6
  /\ out[1].what = "issue" /\ out[1].items[1].comments = 0
  /\ out[3].what = "issue" /\ out[5].what = "comments"
  /\ reqd = {2}

\* C7 (ordering): the issues written are at every point a prefix of what
\* getIssues returned, a comment array is written with the comments in the
\* order getIssueComments returned them for the issue at hand, and a run that
\* returns nil has written every issue getIssues returned.
C7_Ordering ==
  /\ IsPrefix(EmittedIssues(out), issues.elems)
  /\ pc = "pComments" =>
       /\ out[Len(out)].what = "comments"
       /\ out[Len(out)].issue = issues.elems[idx].number
       /\ out[Len(out)].items = comments.elems
  /\ (pc = "done" /\ ret = "nil") => EmittedIssues(out) = issues.elems

\* Two issues were written in a run that returned nil, the second with its
\* two comments.
C7_Witness ==
  /\ pc = "done" /\ ret = "nil" /\ Len(issues.elems) = 2 /\ ~deviated
  /\ EmittedIssues(out) = issues.elems
  /\ \E j \in 1..Len(out) :
       out[j].what = "comments" /\ out[j].issue = 2 /\ Len(out[j].items) = 2

\* Each element of a sequence of numbers is greater than the one before it.
Increasing(s) == \A i \in 1..(Len(s) - 1) : s[i] < s[i + 1]

\* No element of a sequence occurs in it twice.
NoDuplicates(s) == \A i, j \in 1..Len(s) : i # j => s[i] # s[j]

\* C8 (no duplicate page contributions), as claimed: in every fetch, whatever
\* next-page indicators the remote returns, the selectors requested are
\* increasing and no record of a page is in the result twice.
C8_NoDuplicatePages == Increasing(sels) /\ NoDuplicates(all.elems)

\* C8, amended: the same, in a run in which every next-page indicator names
\* a page after the one it answers.
C8_NoDuplicatePagesForward ==
  ~backward =>
    /\ Increasing(sels)
    /\ Increasing(contrib)
    /\ InFetch \/ FetchReturned => NoDuplicates(all.elems)
    /\ pc = "relist" => opt.Page = lastSel

\* A fetch with a rate-limit retry walked pages 1 and 3: the remote named a
\* page beyond the next one.
C8_Witness ==
  /\ FetchReturned /\ deviated /\ ~backward /\ retried
  /\ sels = <<0, 3>> /\ contrib = <<1, 3>>

\* C9 (strict sequencing): at most one request is in flight; while getIssues
\* runs nothing has been written and no comments have been asked for; while
\* getIssueComments runs for an issue, that issue is the one the loop is at
\* and its value is the last one written; the issues are written in the
\* order getIssues returned them.
C9_StrictSequencing ==
  /\ inflight \in {0, 1}
  /\ inflight = 1 <=> pc \in {"listW", "relistW"}
  /\ (InFetch /\ kind = "issues") => (out = <<>> /\ reqd = {} /\ ~wfail)
  /\ (InFetch /\ kind = "comments") =>
       LET v == ValueTokens(out) IN
         /\ Len(v) > 0
         /\ v[Len(v)].what = "issue"
         /\ v[Len(v)].issue = issueNumber
         /\ issueNumber = issues.elems[idx].number
         /\ Len(EmittedIssues(out)) = idx
  /\ IsPrefix(EmittedIssues(out), issues.elems)

\* A request for the comments of the second issue is in flight, after the
\* comments of the first were asked for.
C9_Witness ==
  /\ inflight = 1 /\ kind = "comments" /\ idx = 2 /\ issueNumber = 2 /\ reqd = {1, 2}

\* C10 (idempotence of read): a second run of backupIssues against the same
\* remote state, both runs without any failure, writes the same stream as
\* the first.
C10_Idempotent ==
  (run = 2 /\ pc = "done" /\ Clean) => (ret = "nil" /\ out = prevOut)

\* The second run has written two issues and their comments.
C10_Witness ==
  /\ run = 2 /\ pc = "done" /\ Clean /\ Len(out) = 8 /\ out = prevOut
  /\ out[7].what = "comments" /\ Len(out[7].items) = 2

\* C11 (backoff primitive): waitForRateLimitReset returns true, so that the
\* call is repeated, exactly when the error is a rate-limit error, and false
\* for no error and for any other error; for a rate-limit error the program
\* is suspended for the time left to the reset time when that is positive
\* and not at all when the reset time is now or past; no other step of the
\* program suspends it.
C11_BackoffContract ==
  [][/\ pc = "wait" =>
          /\ (pc' = "relist") <=> (err = "ratelimit")
          /\ (pc' = "post") <=> (err \in {"nil", "other"})
          /\ slept' - slept =
               (IF err = "ratelimit" /\ untilReset > 0 THEN untilReset ELSE 0)
     /\ pc # "wait" => slept' <= slept]_vars

\* A rate-limit error whose reset time lay ahead was waited out for just
\* that time.
C11_Witness ==
  /\ pc = "relist" /\ err = "ratelimit"
  /\ untilReset = MaxWait /\ slept = untilReset

\* C12 (termination of a fetch): a fetch does not leave its retry loop on a
\* rate-limit error, however many it has met; when the remote at last
\* answers each page with a success or with another error, every fetch that
\* was entered returns, and backupIssues comes to its end.
C12_Termination ==
  /\ [](err = "ratelimit" => pc \in {"chk", "wait", "relist", "relistW"})
  /\ [](pc = "relist" => err = "ratelimit" /\ rateLimits >= 1)
  /\ InFetch ~> FetchReturned
  /\ <>(pc = "done")

\* backupIssues has come to its end in a run in which the remote answered
\* with as many rate-limit errors as it may, two of them to one request.
C12_Witness ==
  /\ pc = "done" /\ ret = "nil"
  /\ rateLimits = MaxRateLimits /\ numIssues = 0

\* What and whose each value of a stream is, in order.
Tags(o) == [i \in DOMAIN ValueTokens(o) |->
              <<ValueTokens(o)[i].what, ValueTokens(o)[i].issue>>]

\* The values the range loop owes for a sequence of issues: for each issue
\* its own value and then, when its comment count is greater than zero, one
\* value for its comments.
RECURSIVE Shape(_)
Shape(recs) ==
  IF recs = <<>>
    THEN <<>>
    ELSE <<<<"issue", Head(recs).number>>>>
           \o (IF Head(recs).comments > 0
                 THEN <<<<"comments", Head(recs).number>>>>
                 ELSE <<>>)
           \o Shape(Tail(recs))

\* Number of the issues of a sequence whose comment count is greater than zero.
WithComments(recs) == Cardinality({i \in DOMAIN recs : recs[i].comments > 0})

\* The values written are, issue by issue in the order of the range loop,
\* the issue and then one value for its comments if and only if its comment
\* count is greater than zero; a run that completed wrote them all.
StreamShape ==
  /\ IsPrefix(Tags(out), Shape(issues.elems))
  /\ (pc = "done" /\ ret = "nil") =>
       /\ Tags(out) = Shape(issues.elems)
       /\ Len(ValueTokens(out)) = Len(issues.elems) + WithComments(issues.elems)

\* C13 (output stream structure): the output is, for each issue in order,
\* the issue's value followed, if and only if its comment count is greater
\* than zero, by exactly one value for its comments; a completed run has
\* written (issues) + (issues with comment count > 0) values; and the value
\* written for comments is a JSON array, also when the fetch of the comments
\* returned no record.
C13_OutputStructure ==
  /\ StreamShape
  /\ \A i \in DOMAIN out : out[i].what = "comments" => out[i].form = "array"

\* C14 as stated (warning page number): whatever next-page indicators the
\* remote returned, the page the warning names is the page the failed
\* request asked for, the first request counting as page 1.
C14_WarningNamesSelector ==
  Len(warns) = 1 => warns[1] = PageOf(lastSel)

\* C14, amended: the page counter is one more than the number of pages
\* appended, the selector of a further request is the indicator of the last
\* response, and the warning names the counter; that is the page the failed
\* request asked for when the requests so far asked for pages 1, 2, 3, ...
\* in order.
C14_WarningNamesCounter ==
  /\ (InFetch /\ pc # "ret") => page = Len(contrib) + 1
  /\ (pc = "list" /\ Len(contrib) > 0) => opt.Page = resp.NextPage
  /\ Len(warns) = 1 =>
       /\ warns[1] = Len(contrib) + 1
       /\ sels = Selectors(Len(sels)) => warns[1] = PageOf(lastSel)

\* The request for the second page failed on a retry and the warning names
\* page 2.
C14_Witness ==
  /\ warns = <<2>> /\ lastSel = 2 /\ sels = <<0, 2>> /\ retried /\ err = "other"

\* A request is in flight, or the rate-limit error of the last one is on
\* its way through the retry loop to the next request.
RateLimitedAttempt ==
  \/ pc \in {"listW", "relistW"}
  \/ err = "ratelimit" /\ pc \in {"chk", "wait", "relist"}

\* The last request of the fetch ended in an error that is no rate-limit
\* error, and the fetch has not returned yet.
FailedAttempt == err = "other" /\ pc \in {"chk", "wait", "post", "ret"}

\* C15 (failed attempts leave the fetch state unchanged): no step from a
\* request to the request that repeats it after a rate-limit error changes
\* the accumulated sequence, the page selector or the page counter; after a
\* request that ended in another error no step of the fetch appends
\* anything or changes the selector, and the fetch goes on to its return
\* without a further request.
C15_FailedAttemptFrame ==
  [][/\ RateLimitedAttempt => UNCHANGED <<all, opt, page>>
     /\ (err = "ratelimit" /\ pc = "relist") => pc' = "relistW"
     /\ FailedAttempt =>
          /\ UNCHANGED <<all, opt, page, inflight, sels, lastSel>>
          /\ pc' \in {"wait", "post", "ret", "gotIssues", "gotComments"}
          /\ (pc # "ret") => FailedAttempt']_vars

\* The request for the second page of comments was repeated after a
\* rate-limit error and then failed: the fetch returns the first page.
C15_Witness ==
  /\ pc = "gotComments" /\ err = "other" /\ retried
  /\ page = 2 /\ opt.Page = 2 /\ Len(all.elems) = 1 /\ inflight = 0

\* C16 (diagnostic suppression does not affect data): of two runs against
\* the same remote responses, one with -q and one without, the second makes
\* the requests of the first in the same order and writes the same stream
\* to os.Stdout; what differs is on os.Stderr only: the run with -q has
\* written no line of dbg, and both have written the same number of
\* warnings.
C16_QuietSameData ==
  /\ run = 2 => (IsPrefix(out, prevOut) /\ IsPrefix(reqs, prevReqs))
  /\ (run = 2 /\ pc = "done") =>
       /\ out = prevOut
       /\ reqs = prevReqs
       /\ diag.warn = prevDiag.warn
       /\ IF quiet THEN diag.dbg = 0 ELSE prevDiag.dbg = 0

\* A run with -q has ended after a run without: the comments of the one
\* issue could not be fetched, both runs warned, and only the first wrote
\* lines of dbg.
C16_Witness ==
  /\ run = 2 /\ pc = "done" /\ quiet
  /\ prevDiag.dbg >= 2 /\ diag = [dbg |-> 0, warn |-> 1]
  /\ Len(reqs) = 2 /\ Len(out) = 4 /\ out = prevOut
====
